---- MODULE Spec2Model ----
(***************************************************************************)
(* The Lightning channel graph store of electrum/lnrouter.py (ChannelDB):  *)
(* the node_info, channel_info and policy tables behind the ORM session,   *)
(* the channel verifier's staging set, and the gossip handlers that change *)
(* them.  Every handler is one action; the outcome of a call (normal       *)
(* return or the exception that left it) is kept in err, and the call and  *)
(* its arguments in call.                                                  *)
(***************************************************************************)
EXTENDS Integers, Sequences, FiniteSets, TLC

\* ------------------------------------------------------------------ bounds
MaxNode == 3
MaxScid == 2
MaxTime == 2
MaxFee == 1
MaxRouteLen == 22
MaxRecords == 3
MaxPeers == 21
MaxVariedPeers == 2
MaxReconnect == 3

\* ------------------------------------------------------- program constants
FLAG_DISABLE == 2
FLAG_DIRECTION == 1

\* node ids and short channel ids; the hex strings the tables are keyed by
\* have equal length, so their order is the order of these numbers
NodeIds == 1 .. MaxNode
Scids == 1 .. MaxScid

\* the known-set of global feature bits (lnutil): no bit is known
LN_GLOBAL_FEATURES_KNOWN_SET == {}

\* the genesis hash of the network the wallet runs on, and a foreign one
rev_genesis_bytes == "genesis"
ChainHashes == {"genesis", "other"}

\* the attributes ChannelDB.__init__ sets on the store object
ChannelDBAttributes ==
    {"network", "path", "lock", "_channel_updates_for_private_channels",
     "ca_verifier", "ChannelInfoInDB", "Policy", "NodeInfoInDB",
     "AddressInDB", "sess"}

\* ------------------------------------------------------------ wire values
RECURSIVE IntFromBytes(_)
\* int.from_bytes(b, "big")
IntFromBytes(b) ==
    IF b = <<>> THEN 0
    ELSE 256 * IntFromBytes(SubSeq(b, 1, Len(b) - 1)) + b[Len(b)]

RECURSIVE Pow2(_)
Pow2(n) == IF n = 0 THEN 1 ELSE 2 * Pow2(n - 1)

\* a & (1 << bit), for a flag that is one bit
BitAnd(a, flag) == IF (a \div flag) % 2 = 1 THEN flag ELSE 0

\* util.list_enabled_bits: the positions of the bits set in x (x < 256)
list_enabled_bits(x) == {b \in 0 .. 7 : (x \div Pow2(b)) % 2 = 1}

\* validate_features with the parity test turned round: odd bits are refused
validate_features_raises_odd(features) ==
    \E fbit \in list_enabled_bits(features) :
        Pow2(fbit) \notin LN_GLOBAL_FEATURES_KNOWN_SET /\ fbit % 2 = 1

\* validate_features: TRUE when UnknownEvenFeatureBits is raised
validate_features_raises(features) ==
    \E fbit \in list_enabled_bits(features) :
        Pow2(fbit) \notin LN_GLOBAL_FEATURES_KNOWN_SET /\ fbit % 2 = 0

\* one-byte fields of the gossip messages
FeatureBytes == {<<0>>, <<1>>, <<2>>}
FlagBytes == {<<f>> : f \in 0 .. 3}
TimeBytes == {<<t>> : t \in 1 .. MaxTime}
FeeBytes == {<<f>> : f \in 0 .. MaxFee}

\* channel_announcement payloads
ChannelAnnouncements ==
    [short_channel_id : Scids, node_id_1 : NodeIds, node_id_2 : NodeIds,
     chain_hash : ChainHashes, features : FeatureBytes]

\* channel_update payloads; signer is the node whose key made the signature,
\* htlc_maximum_msat is optional (<<>> when the field is absent)
ChannelUpdates ==
    [short_channel_id : Scids, chain_hash : ChainHashes,
     channel_flags : FlagBytes, timestamp : TimeBytes,
     cltv_expiry_delta : {<<40>>}, htlc_minimum_msat : {<<0>>},
     htlc_maximum_msat : {<<>>, <<200>>}, fee_base_msat : FeeBytes,
     fee_proportional_millionths : {<<0>>}, signer : NodeIds]

\* lnchannelverifier.verify_sig_for_channel_update(msg_payload, node_id)
verify_sig_for_channel_update(msg_payload, node_id) ==
    msg_payload.signer = node_id

\* ------------------------------------------------------------------ state
VARIABLES
    node_info,      \* table node_info: node_id -> row
    channel_info,   \* table channel_info: short_channel_id -> row
    policy,         \* table policy: <<short_channel_id, start_node>> -> row
    pending,        \* the verifier's staging set: short_channel_id -> row
    private,        \* _channel_updates_for_private_channels:
                    \* <<start_node_id, short_channel_id>> -> channel_update
    address,        \* the address table: (node_id, host, port) -> its row
    blacklist,      \* LNPathFinder.blacklist: a set of short_channel_ids
    lock,           \* self.lock: "free" or the handler that holds it
    running,        \* the handler a gossip thread is inside of, <<>> if none
    err,            \* how the last call ended: "ok" or the exception raised
    call            \* the last call: the operation and the line it left at

vars == <<node_info, channel_info, policy, pending, private, address,
          blacklist, lock, running, err, call>>

\* the store as one value: what a handler reads and what it leaves
DB == [node_info |-> node_info, channel_info |-> channel_info,
       policy |-> policy, pending |-> pending, private |-> private,
       address |-> address]

\* the graph the claims speak of
graph(db) == <<db.node_info, db.channel_info, db.policy>>

\* how a handler ends: the store it leaves, "ok" or the exception it raised,
\* and the source line it returned or raised at
Out(db, e, line) == [db |-> db, err |-> e, at |-> line]

\* f without the key k
Without(f, k) == [x \in DOMAIN f \ {k} |-> f[x]]

\* A nullable column holds {} (NULL) or {v}.
\* ChannelDB.dummy_node: the shell row of a node known only by its id
dummy_node(pubkeyhex) ==
    [node_id |-> pubkeyhex, features |-> {0},
     timestamp |-> {"now"}, alias |-> {"DUMMY ALIAS"}]

\* NodeInfoInDB(node_id=...) as add_verified_channel_info builds it
NodeInfoInDB_only_id(id) ==
    [node_id |-> id, features |-> {}, timestamp |-> {}, alias |-> {}]

\* ChannelInfoInDB.from_msg: "UnknownEvenFeatureBits", "AssertionError" or
\* the row built from the announcement (msg_payload_hex is the serialized
\* announcement, which no handler reads back)
ChannelInfoInDB_from_msg(p) ==
    IF validate_features_raises(IntFromBytes(p.features))
    THEN [raised |-> "UnknownEvenFeatureBits"]
    ELSE IF ~(p.node_id_1 <= p.node_id_2)
    THEN [raised |-> "AssertionError"]
    ELSE [raised |-> "",
          row |-> [short_channel_id |-> p.short_channel_id,
                   node1_id |-> p.node_id_1, node2_id |-> p.node_id_2,
                   capacity_sat |-> {},
                   msg_payload_hex |-> {"channel_announcement"}]]

\* ---------------------------------------------------------------- session
\* The rows sess.add() collected, in order, meet the schema at sess.commit():
\* primary keys are unique, nullable=False columns are set, and (PRAGMA
\* foreign_keys=ON) a channel's endpoints are rows of node_info.
SchemaViolated(db, nodes, chans) ==
    \/ \E i \in DOMAIN nodes :
          \/ nodes[i].node_id \in DOMAIN db.node_info
          \/ nodes[i].features = {} \/ nodes[i].timestamp = {}
          \/ nodes[i].alias = {}
          \/ \E j \in DOMAIN nodes : j # i /\ nodes[j].node_id = nodes[i].node_id
    \/ \E i \in DOMAIN chans :
          \/ chans[i].short_channel_id \in DOMAIN db.channel_info
          \/ chans[i].msg_payload_hex = {}
          \/ \E j \in DOMAIN chans :
                j # i /\ chans[j].short_channel_id = chans[i].short_channel_id
          \/ \E e \in {chans[i].node1_id, chans[i].node2_id} :
                /\ e \notin DOMAIN db.node_info
                /\ \A k \in DOMAIN nodes : nodes[k].node_id # e

\* sess.commit() at source line `line`: all the rows are written, or
\* IntegrityError is raised and the transaction is rolled back
Commit(db, nodes, chans, line) ==
    IF SchemaViolated(db, nodes, chans)
    THEN Out(db, "IntegrityError", line)
    ELSE Out([db EXCEPT
                !.node_info =
                    [n \in DOMAIN db.node_info
                           \cup {nodes[i].node_id : i \in DOMAIN nodes} |->
                        IF n \in DOMAIN db.node_info THEN db.node_info[n]
                        ELSE nodes[CHOOSE k \in DOMAIN nodes :
                                       nodes[k].node_id = n]],
                !.channel_info =
                    [s \in DOMAIN db.channel_info
                           \cup {chans[i].short_channel_id : i \in DOMAIN chans} |->
                        IF s \in DOMAIN db.channel_info THEN db.channel_info[s]
                        ELSE chans[CHOOSE k \in DOMAIN chans :
                                       chans[k].short_channel_id = s]]],
             "ok", line)

\* ------------------------------------------------------- channel handlers
\* ChannelDB.add_verified_channel_info, entered with the rows the session
\* already holds: two node rows and a channel row are added and committed
add_verified_channel_info(db, short_channel_id, ci, sessNodes, sessChans) ==
    LET node1 == NodeInfoInDB_only_id(ci.node1_id)
        node2 == NodeInfoInDB_only_id(ci.node1_id)
        new_chan == [short_channel_id |-> short_channel_id,
                     node1_id |-> node1.node_id, node2_id |-> node2.node_id,
                     capacity_sat |-> {}, msg_payload_hex |-> {}]
    IN Commit(db, sessNodes \o <<node1, node2>>, sessChans \o <<new_chan>>, 356)

\* LNChannelVerifier.add_new_channel_info: the channel joins the staging set
add_new_channel_info(db, ci) ==
    [db EXCEPT !.pending =
        [s \in DOMAIN db.pending \cup {ci.short_channel_id} |->
            IF s = ci.short_channel_id THEN ci ELSE db.pending[s]]]

\* LNChannelVerifier.get_pending_channel_info: {} (None) or the staged row
get_pending_channel_info(db, short_channel_id) ==
    IF short_channel_id \in DOMAIN db.pending
    THEN {db.pending[short_channel_id]} ELSE {}

\* channel_info.node1 / channel_info.node2 of a row the session has not
\* flushed yet: the ORM either resolves the relationship against node_info or
\* leaves it None; resolved says which
relationship_is_None(db, node_id, resolved) ==
    ~resolved \/ node_id \notin DOMAIN db.node_info

\* ChannelDB.on_channel_announcement
on_channel_announcement_result(db, msg_payload, trusted, r1, r2) ==
    LET short_channel_id == msg_payload.short_channel_id
        made == ChannelInfoInDB_from_msg(msg_payload)
    IN IF short_channel_id \in DOMAIN db.channel_info THEN Out(db, "ok", 362)
       ELSE IF rev_genesis_bytes # msg_payload.chain_hash THEN Out(db, "ok", 365)
       ELSE IF made.raised = "UnknownEvenFeatureBits" THEN Out(db, "ok", 369)
       ELSE IF made.raised # "" THEN Out(db, made.raised, 115)
       ELSE
         LET ci == made.row
             dummies ==
                 (IF relationship_is_None(db, ci.node1_id, r1)
                  THEN <<dummy_node(ci.node1_id)>> ELSE <<>>)
                 \o (IF relationship_is_None(db, ci.node2_id, r2)
                     THEN <<dummy_node(ci.node2_id)>> ELSE <<>>)
         IN IF trusted
            THEN add_verified_channel_info(db, short_channel_id, ci,
                                           dummies, <<ci>>)
            ELSE Commit(add_new_channel_info(db, ci), dummies, <<ci>>, 379)

\* ChannelDB.chan_for_id: the query is built on self.ChanInfoInDB, and
\* reading an attribute the store object does not have raises AttributeError
chan_for_id(db, short_channel_id) ==
    IF "ChanInfoInDB" \notin ChannelDBAttributes
    THEN [raised |-> "AttributeError", rows |-> {}]
    ELSE [raised |-> "",
          rows |-> IF short_channel_id \in DOMAIN db.channel_info
                   THEN {db.channel_info[short_channel_id]} ELSE {}]

\* Policy.from_msg: the fields of a channel_update, decoded; the timestamp
\* becomes a datetime, which orders as the integer does
Policy_from_msg(p) ==
    [cltv_expiry_delta |-> IntFromBytes(p.cltv_expiry_delta),
     htlc_minimum_msat |-> IntFromBytes(p.htlc_minimum_msat),
     htlc_maximum_msat |-> IF p.htlc_maximum_msat # <<>>
                           THEN {IntFromBytes(p.htlc_maximum_msat)} ELSE {},
     fee_base_msat |-> IntFromBytes(p.fee_base_msat),
     fee_proportional_millionths |-> IntFromBytes(p.fee_proportional_millionths),
     channel_flags |-> IntFromBytes(p.channel_flags),
     timestamp |-> IntFromBytes(p.timestamp)]

\* Policy.disabled: the disable bit of the channel flags
disabled(p) == BitAnd(p.channel_flags, FLAG_DISABLE)

\* the start node the direction bit of an update selects (lines 134-140)
start_node_of(ci, msg_payload) ==
    IF BitAnd(IntFromBytes(msg_payload.channel_flags), FLAG_DIRECTION) = 0
    THEN ci.node1_id ELSE ci.node2_id

\* ChannelInfoInDB.on_channel_update checking the signature of trusted
\* updates too
on_channel_update_sig_always(db, ci, msg_payload, trusted) ==
    LET new_policy == Policy_from_msg(msg_payload)
        node_id == start_node_of(ci, msg_payload)
        key == <<ci.short_channel_id, node_id>>
        old_policy == IF key \in DOMAIN db.policy THEN {db.policy[key]} ELSE {}
    IN IF old_policy # {} /\ db.policy[key].timestamp >= new_policy.timestamp
       THEN Out(db, "ok", 143)
       ELSE IF ~verify_sig_for_channel_update(msg_payload, node_id)
       THEN Out(db, "ok", 145)
       ELSE IF old_policy = {}
       THEN Out(db, "AttributeError", 146)
       ELSE Out([db EXCEPT !.policy[key] = new_policy], "ok", 153)

\* ChannelInfoInDB.on_channel_update replacing a Policy by delete-and-add
\* where the add is skipped once a row was deleted, and a tie in the
\* timestamps is not stale
on_channel_update_delete_or_add(db, ci, msg_payload, trusted) ==
    LET new_policy == Policy_from_msg(msg_payload)
        node_id == start_node_of(ci, msg_payload)
        key == <<ci.short_channel_id, node_id>>
        old_policy == IF key \in DOMAIN db.policy THEN {db.policy[key]} ELSE {}
    IN IF old_policy # {} /\ db.policy[key].timestamp > new_policy.timestamp
       THEN Out(db, "ok", 143)
       ELSE IF ~trusted /\ ~verify_sig_for_channel_update(msg_payload, node_id)
       THEN Out(db, "ok", 145)
       ELSE IF old_policy = {}
       THEN Out([db EXCEPT !.policy =
                    [k \in DOMAIN db.policy \cup {key} |->
                        IF k = key THEN new_policy ELSE db.policy[k]]],
                "ok", 153)
       ELSE Out([db EXCEPT !.policy = Without(db.policy, key)], "ok", 153)

\* ChannelInfoInDB.on_channel_update on the row ci
ChannelInfoInDB_on_channel_update(db, ci, msg_payload, trusted) ==
    LET new_policy == Policy_from_msg(msg_payload)
        node_id == start_node_of(ci, msg_payload)
        key == <<ci.short_channel_id, node_id>>
        old_policy == IF key \in DOMAIN db.policy THEN {db.policy[key]} ELSE {}
    IN IF old_policy # {} /\ db.policy[key].timestamp >= new_policy.timestamp
       THEN Out(db, "ok", 143)
       ELSE IF ~trusted /\ ~verify_sig_for_channel_update(msg_payload, node_id)
       THEN Out(db, "ok", 145)
       ELSE IF old_policy = {}
       THEN \* old_policy is None: setting its first field raises
            Out(db, "AttributeError", 146)
       ELSE Out([db EXCEPT !.policy[key] = new_policy], "ok", 153)

\* ChannelDB.on_channel_update
on_channel_update_result(db, msg_payload, trusted) ==
    LET short_channel_id == msg_payload.short_channel_id
        staged == get_pending_channel_info(db, short_channel_id)
        verified == chan_for_id(db, short_channel_id)
    IN IF rev_genesis_bytes # msg_payload.chain_hash THEN Out(db, "ok", 384)
       ELSE IF staged # {}
       THEN ChannelInfoInDB_on_channel_update(
                db, db.pending[short_channel_id], msg_payload, trusted)
       ELSE IF verified.raised # "" THEN Out(db, verified.raised, 437)
       ELSE IF verified.rows = {}
       THEN Out(db, "NotFoundChanAnnouncementForUpdate", 392)
       ELSE ChannelInfoInDB_on_channel_update(
                db, db.channel_info[short_channel_id], msg_payload, trusted)

\* ChannelDB.remove_channel: the rows chan_for_id selects are deleted
remove_channel_result(db, short_channel_id) ==
    LET q == chan_for_id(db, short_channel_id)
    IN IF q.raised # "" THEN Out(db, q.raised, 437)
       ELSE Out([db EXCEPT
                    !.channel_info = Without(db.channel_info, short_channel_id)],
                "ok", 434)

\* --------------------------------------------------------------- verifier
\* The verifier found the funding output of a staged channel: it hands the
\* channel to add_verified_channel_info and, when that returns, drops it
\* from the staging set.
verifier_promote_result(db, short_channel_id) ==
    LET c == add_verified_channel_info(db, short_channel_id,
                                       db.pending[short_channel_id], <<>>, <<>>)
    IN IF c.err = "ok"
       THEN [c EXCEPT !.db.pending = Without(db.pending, short_channel_id)]
       ELSE c

\* The funding output does not match the announced keys: the staged channel
\* is discarded.
verifier_discard_result(db, short_channel_id) ==
    Out([db EXCEPT !.pending = Without(db.pending, short_channel_id)], "ok", 0)

\* ---------------------------------------------------------------- queries
\* what a query hands back: the store (unchanged), "ok" or the exception, the
\* line it left at, and the value returned ({} is None)
OutRet(db, e, line, ret) == [db |-> db, err |-> e, at |-> line, ret |-> ret]

\* an id of no bytes (b''), which Python's `not` takes for false
IsEmptyBytes(x) == x = 0

\* ChannelDB.get_channel_info(short_channel_id): the Channel of the verified
\* set (table channel_info), or None
get_channel_info(db, short_channel_id) ==
    IF short_channel_id \in DOMAIN db.channel_info
    THEN {db.channel_info[short_channel_id]} ELSE {}

\* the policy rows a query filtered by start_node alone selects
policies_filter_by_start_node(db, node) ==
    {k \in DOMAIN db.policy : k[2] = node}

\* ChannelInfoInDB.get_policy_for_node(self2, node), lines 155-165. `self` is
\* the ChannelDB, which has no attribute node1_id: line 158 raises. Past it,
\* the query filters by start_node only (no short_channel_id) and .one()
\* raises unless exactly one row matches.
get_policy_for_node(db, ci, node) ==
    IF "node1_id" \notin ChannelDBAttributes
    THEN [raised |-> "AttributeError", at |-> 158, ret |-> {}]
    ELSE IF node \notin {ci.node1_id, ci.node2_id}
    THEN [raised |-> "Exception", at |-> 159, ret |-> {}]
    ELSE LET rows == policies_filter_by_start_node(db, node)
         IN IF rows = {}
            THEN [raised |-> "NoResultFound", at |-> 160, ret |-> {}]
            ELSE IF Cardinality(rows) > 1
            THEN [raised |-> "MultipleResultsFound", at |-> 160, ret |-> {}]
            ELSE [raised |-> "ok", at |-> 162,
                  ret |-> {db.policy[k] : k \in rows}]

\* ChannelDB.get_routing_policy_for_channel, lines 416-424
get_routing_policy_for_channel_result(db, start_node_id, short_channel_id) ==
    IF IsEmptyBytes(start_node_id) \/ IsEmptyBytes(short_channel_id)
    THEN OutRet(db, "ok", 418, {})
    ELSE LET channel_info_ == get_channel_info(db, short_channel_id)
         IN IF channel_info_ # {}
            THEN LET ci == CHOOSE c \in channel_info_ : TRUE
                     got == get_policy_for_node(db, ci, start_node_id)
                 IN IF got.raised # "ok"
                    THEN OutRet(db, got.raised, got.at, {})
                    ELSE OutRet(db, "ok", 421, got.ret)
            ELSE IF <<start_node_id, short_channel_id>> \notin DOMAIN db.private
            THEN OutRet(db, "ok", 423, {})
            ELSE OutRet(db, "ok", 424,
                   {Policy_from_msg(db.private[<<start_node_id, short_channel_id>>])})

\* ChannelDB.add_channel_update_for_private_channel, lines 426-430
add_channel_update_for_private_channel_result(db, msg_payload, start_node_id) ==
    IF ~verify_sig_for_channel_update(msg_payload, start_node_id)
    THEN Out(db, "ok", 428)
    ELSE LET key == <<start_node_id, msg_payload.short_channel_id>>
         IN Out([db EXCEPT !.private =
                    [k \in DOMAIN db.private \cup {key} |->
                        IF k = key THEN msg_payload ELSE db.private[k]]],
                "ok", 430)

\* ------------------------------------------------------------- path finder
\* ChannelDB.get_channels_for_node(node_id): the scids of the channels of the
\* verified set with node_id as an endpoint, in the order `order` lists them
get_channels_for_node(db, node_id, order) ==
    SelectSeq(order, LAMBDA s :
        /\ s \in DOMAIN db.channel_info
        /\ node_id \in {db.channel_info[s].node1_id, db.channel_info[s].node2_id})

\* Channel.can_pay(amount_msat) of a local channel: its spendable balance
\* covers the amount
can_pay(chan, amount_msat) == amount_msat <= chan.balance_msat

\* RouteEdge.from_channel_policy, lines 486-495
RouteEdge_from_channel_policy(channel_policy, short_channel_id, end_node) ==
    [node_id |-> end_node,
     short_channel_id |-> short_channel_id,
     fee_base_msat |-> channel_policy.fee_base_msat,
     fee_proportional_millionths |-> channel_policy.fee_proportional_millionths,
     cltv_expiry_delta |-> channel_policy.cltv_expiry_delta]

\* (a * p) // 1_000_000 of line 484. Python's integers do not overflow: the
\* product is formed in parts of three decimal digits, so that no partial
\* result leaves the 32 bits of TLC's integers
MulDivMillion(a, p) ==
    LET a1 == a \div 1000
        a0 == a % 1000
        p1 == p \div 1000
        p0 == p % 1000
        mid == a1 * p0 + a0 * p1
    IN a1 * p1 + (mid \div 1000) + (((mid % 1000) * 1000 + a0 * p0) \div 1000000)

\* RouteEdge.fee_for_edge, lines 482-484
fee_for_edge(route_edge, amount_msat) ==
    route_edge.fee_base_msat
        + MulDivMillion(amount_msat, route_edge.fee_proportional_millionths)

\* RouteEdge.is_sane_to_use with the ten percent rule of line 509 left out
is_sane_to_use_without_tenth_rule(route_edge, amount_msat) ==
    LET total_fee == fee_for_edge(route_edge, amount_msat)
    IN IF route_edge.cltv_expiry_delta > 14 * 144 THEN FALSE
       ELSE IF total_fee > 50000
       THEN IF total_fee > amount_msat THEN FALSE
            ELSE IF total_fee > 5000000 THEN FALSE
            ELSE TRUE
       ELSE TRUE

\* RouteEdge.is_sane_to_use, lines 497-510; total_fee > amount_msat/10 is a
\* float comparison, the same as 10 * total_fee > amount_msat
is_sane_to_use(route_edge, amount_msat) ==
    LET total_fee == fee_for_edge(route_edge, amount_msat)
    IN IF route_edge.cltv_expiry_delta > 14 * 144 THEN FALSE
       ELSE IF total_fee > 50000
       THEN IF total_fee > amount_msat THEN FALSE
            ELSE IF total_fee > 5000000 THEN FALSE
            ELSE IF amount_msat > 1000000 /\ 10 * total_fee > amount_msat
            THEN FALSE
            ELSE TRUE
       ELSE TRUE

\* what _edge_cost returns: the cost ({} is float('inf'); a finite cost is
\* kept in units of 1/10000, so that fee_msat / 1000 / 10 stays an integer)
\* and the fee, or the exception raised inside it
EdgeCost(raised, line, cost, fee_msat) ==
    [raised |-> raised, at |-> line, cost |-> cost, fee |-> fee_msat]

\* LNPathFinder._edge_cost, lines 546-574
edge_cost(db, short_channel_id, start_node, end_node, payment_amt_msat, ignore_costs) ==
    LET channel_info_ == get_channel_info(db, short_channel_id)
    IN IF channel_info_ = {} THEN EdgeCost("", 553, {}, 0)
       ELSE
       LET ci == CHOOSE c \in channel_info_ : TRUE
           got == get_policy_for_node(db, ci, start_node)
       IN IF got.raised # "ok" THEN EdgeCost(got.raised, got.at, {}, 0)
          ELSE IF got.ret = {} THEN EdgeCost("", 556, {}, 0)
          ELSE
          LET channel_policy == CHOOSE p \in got.ret : TRUE
              route_edge == RouteEdge_from_channel_policy(
                                channel_policy, short_channel_id, end_node)
              fee_msat == IF ~ignore_costs
                          THEN fee_for_edge(route_edge, payment_amt_msat) ELSE 0
              cltv_cost == IF ~ignore_costs
                           THEN route_edge.cltv_expiry_delta ELSE 0
          IN IF disabled(channel_policy) # 0 THEN EdgeCost("", 557, {}, 0)
             ELSE IF payment_amt_msat < channel_policy.htlc_minimum_msat
             THEN EdgeCost("", 560, {}, 0)
             ELSE IF /\ ci.capacity_sat # {}
                     /\ \E cap \in ci.capacity_sat :
                           payment_amt_msat \div 1000 > cap
             THEN EdgeCost("", 563, {}, 0)
             ELSE IF /\ channel_policy.htlc_maximum_msat # {}
                     /\ \E mx \in channel_policy.htlc_maximum_msat :
                           payment_amt_msat > mx
             THEN EdgeCost("", 566, {}, 0)
             ELSE IF ~is_sane_to_use(route_edge, payment_amt_msat)
             THEN EdgeCost("", 568, {}, 0)
             ELSE EdgeCost("", 574,
                           {cltv_cost * 10000 + fee_msat + 10000}, fee_msat)

\* the search's locals: distance_from_start (a node without entry is at
\* float('inf')), prev_node, nodes_to_explore and the exception raised so far;
\* and, for the record, the edges handed to _edge_cost (line 611) as
\* <<scid, start, amount>>, the scids skipped as blacklisted (line 635) and
\* the scids of the local edges dropped because can_pay said no (line 607)
SearchStart(nodeB, invoice_amount_msat) ==
    [distance_from_start |-> [n \in {nodeB} |-> 0],
     prev_node |-> <<>>,
     nodes_to_explore |-> {<<0, invoice_amount_msat, nodeB>>},
     raised |-> "", at |-> 0,
     costed |-> {}, skipped |-> {}, dropped |-> {}]

\* the order of the tuples in queue.PriorityQueue: field by field
TupleLess(a, b) ==
    \/ a[1] < b[1]
    \/ a[1] = b[1] /\ a[2] < b[2]
    \/ a[1] = b[1] /\ a[2] = b[2] /\ a[3] < b[3]

\* nodes_to_explore.get(): the least tuple
PriorityQueue_get(q) == CHOOSE t \in q : \A u \in q \ {t} : TupleLess(t, u)

\* f with the key k set to v
Put(f, k, v) == [x \in DOMAIN f \cup {k} |-> IF x = k THEN v ELSE f[x]]

\* inspect_edge without the can_pay test of lines 605-607
inspect_edge_without_can_pay(a, st, edge_channel_id, edge_startnode, edge_endnode, amount_msat) ==
    IF /\ edge_channel_id \in DOMAIN a.my_channels
            /\ edge_startnode # a.nodeA
            /\ edge_endnode # a.nodeA
    THEN [st EXCEPT !.raised = "AssertionError", !.at = 609]
    ELSE
    LET ec == edge_cost(a.db, edge_channel_id, edge_startnode, edge_endnode,
                        amount_msat, edge_startnode = a.nodeA)
        st1 == [st EXCEPT !.costed =
                    @ \cup {<<edge_channel_id, edge_startnode, amount_msat>>}]
    IN IF ec.raised # "" THEN [st1 EXCEPT !.raised = ec.raised, !.at = ec.at]
       ELSE IF ec.cost = {} THEN st1
       ELSE
       LET edge_cost_ == CHOOSE c \in ec.cost : TRUE
           alt_dist_to_neighbour ==
               st.distance_from_start[edge_endnode] + edge_cost_
       IN IF \/ edge_startnode \notin DOMAIN st.distance_from_start
             \/ alt_dist_to_neighbour < st.distance_from_start[edge_startnode]
          THEN [st1 EXCEPT
                  !.distance_from_start =
                      Put(@, edge_startnode, alt_dist_to_neighbour),
                  !.prev_node =
                      Put(@, edge_startnode, <<edge_endnode, edge_channel_id>>),
                  !.nodes_to_explore =
                      @ \cup {<<alt_dist_to_neighbour,
                                amount_msat + ec.fee, edge_startnode>>}]
          ELSE st1

\* inspect_edge, lines 603-621; a holds the arguments of the search
inspect_edge(a, st, edge_channel_id, edge_startnode, edge_endnode, amount_msat) ==
    IF /\ edge_channel_id \in DOMAIN a.my_channels
       /\ edge_startnode = a.nodeA
       /\ ~can_pay(a.my_channels[edge_channel_id], amount_msat)
    THEN [st EXCEPT !.dropped = @ \cup {edge_channel_id}]
    ELSE IF /\ edge_channel_id \in DOMAIN a.my_channels
            /\ edge_startnode # a.nodeA
            /\ edge_endnode # a.nodeA
    THEN [st EXCEPT !.raised = "AssertionError", !.at = 609]
    ELSE
    LET ec == edge_cost(a.db, edge_channel_id, edge_startnode, edge_endnode,
                        amount_msat, edge_startnode = a.nodeA)
        st1 == [st EXCEPT !.costed =
                    @ \cup {<<edge_channel_id, edge_startnode, amount_msat>>}]
    IN IF ec.raised # "" THEN [st1 EXCEPT !.raised = ec.raised, !.at = ec.at]
       ELSE IF ec.cost = {} THEN st1
       ELSE
       LET edge_cost_ == CHOOSE c \in ec.cost : TRUE
           alt_dist_to_neighbour ==
               st.distance_from_start[edge_endnode] + edge_cost_
       IN IF \/ edge_startnode \notin DOMAIN st.distance_from_start
             \/ alt_dist_to_neighbour < st.distance_from_start[edge_startnode]
          THEN [st1 EXCEPT
                  !.distance_from_start =
                      Put(@, edge_startnode, alt_dist_to_neighbour),
                  !.prev_node =
                      Put(@, edge_startnode, <<edge_endnode, edge_channel_id>>),
                  !.nodes_to_explore =
                      @ \cup {<<alt_dist_to_neighbour,
                                amount_msat + ec.fee, edge_startnode>>}]
          ELSE st1

\* the for loop of lines 633-638 without the blacklist test of line 635
RECURSIVE for_channels_ignoring_blacklist(_, _, _, _, _, _)
for_channels_ignoring_blacklist(a, st, chans, i, edge_endnode, amount_msat) ==
    IF st.raised # "" \/ i > Len(chans) THEN st
    ELSE
    LET edge_channel_id == chans[i]
        channel_info_ == get_channel_info(a.db, edge_channel_id)
    IN IF channel_info_ = {}
       THEN [st EXCEPT !.raised = "AttributeError", !.at = 637]
       ELSE
       LET ci == CHOOSE c \in channel_info_ : TRUE
           edge_startnode == IF ci.node1_id = edge_endnode
                             THEN ci.node2_id ELSE ci.node1_id
       IN for_channels_ignoring_blacklist(a,
              inspect_edge(a, st, edge_channel_id, edge_startnode,
                           edge_endnode, amount_msat),
              chans, i + 1, edge_endnode, amount_msat)

\* the for loop of lines 633-638 over the channels of edge_endnode, from the
\* i-th on
RECURSIVE for_channels(_, _, _, _, _, _)
for_channels(a, st, chans, i, edge_endnode, amount_msat) ==
    IF st.raised # "" \/ i > Len(chans) THEN st
    ELSE
    LET edge_channel_id == chans[i]
    IN IF edge_channel_id \in a.blacklist
       THEN for_channels(a, [st EXCEPT !.skipped = @ \cup {edge_channel_id}],
                         chans, i + 1, edge_endnode, amount_msat)
       ELSE
       LET channel_info_ == get_channel_info(a.db, edge_channel_id)
       IN IF channel_info_ = {}
          THEN [st EXCEPT !.raised = "AttributeError", !.at = 637]
          ELSE
          LET ci == CHOOSE c \in channel_info_ : TRUE
              edge_startnode == IF ci.node1_id = edge_endnode
                                THEN ci.node2_id ELSE ci.node1_id
          IN for_channels(a,
                 inspect_edge(a, st, edge_channel_id, edge_startnode,
                              edge_endnode, amount_msat),
                 chans, i + 1, edge_endnode, amount_msat)

\* the backtrack of lines 643-649: the path from edge_startnode to nodeB as
\* a list of <<node_id, short_channel_id>>
RECURSIVE backtrack(_, _, _)
backtrack(prev_node, edge_startnode, nodeB) ==
    IF edge_startnode = nodeB THEN <<>>
    ELSE <<prev_node[edge_startnode]>>
             \o backtrack(prev_node, prev_node[edge_startnode][1], nodeB)

\* what find_path_for_payment hands back: ret is {} for None and {path}
\* for a path; paid is the amount popped with nodeA (what the sender pays);
\* the rest are the search's locals when it stopped
Found(st, e, line, ret, paid) ==
    [err |-> e, at |-> line, ret |-> ret, paid |-> paid,
     distance_from_start |-> st.distance_from_start, costed |-> st.costed,
     skipped |-> st.skipped, dropped |-> st.dropped]

\* the main loop with the test of lines 626-627 moved behind the for loop:
\* the channels of nodeA are inspected before the search stops at it
RECURSIVE main_loop_visiting_nodeA(_, _)
main_loop_visiting_nodeA(a, st) ==
    IF st.raised # "" THEN Found(st, st.raised, st.at, {}, {})
    ELSE IF st.nodes_to_explore = {} THEN Found(st, "ok", 640, {}, {})
    ELSE
    LET item == PriorityQueue_get(st.nodes_to_explore)
        dist_to_edge_endnode == item[1]
        amount_msat == item[2]
        edge_endnode == item[3]
        st1 == [st EXCEPT !.nodes_to_explore = @ \ {item}]
        st2 == for_channels(a, st1,
                   get_channels_for_node(a.db, edge_endnode, a.order),
                   1, edge_endnode, amount_msat)
    IN IF dist_to_edge_endnode # st1.distance_from_start[edge_endnode]
       THEN main_loop_visiting_nodeA(a, st1)
       ELSE IF st2.raised # "" THEN Found(st2, st2.raised, st2.at, {}, {})
       ELSE IF edge_endnode = a.nodeA
       THEN Found(st2, "ok", 649,
                  {backtrack(st2.prev_node, a.nodeA, a.nodeB)}, {amount_msat})
       ELSE main_loop_visiting_nodeA(a, st2)

\* the main loop of the search, lines 624-640, and the backtrack
RECURSIVE main_loop(_, _)
main_loop(a, st) ==
    IF st.raised # "" THEN Found(st, st.raised, st.at, {}, {})
    ELSE IF st.nodes_to_explore = {} THEN Found(st, "ok", 640, {}, {})
    ELSE
    LET item == PriorityQueue_get(st.nodes_to_explore)
        dist_to_edge_endnode == item[1]
        amount_msat == item[2]
        edge_endnode == item[3]
        st1 == [st EXCEPT !.nodes_to_explore = @ \ {item}]
    IN IF edge_endnode = a.nodeA
       THEN Found(st1, "ok", 649,
                  {backtrack(st1.prev_node, a.nodeA, a.nodeB)}, {amount_msat})
       ELSE IF dist_to_edge_endnode # st1.distance_from_start[edge_endnode]
       THEN main_loop(a, st1)
       ELSE main_loop(a,
                for_channels(a, st1,
                    get_channels_for_node(a.db, edge_endnode, a.order),
                    1, edge_endnode, amount_msat))

\* LNPathFinder.find_path_for_payment, lines 577-649
find_path_for_payment_result(db, blacklist_, nodeA, nodeB, invoice_amount_msat, my_channels, order) ==
    main_loop([db |-> db, blacklist |-> blacklist_, nodeA |-> nodeA,
               nodeB |-> nodeB, my_channels |-> my_channels, order |-> order],
              SearchStart(nodeB, invoice_amount_msat))

\* ------------------------------------------------------ node announcements
\* the node_announcement payloads fed to the store; signature_ok is the
\* verdict of ecc.verify_signature over sha256d(raw[66:]) (lines 396-399)
NodeFeatureBytes == {<<0>>, <<2>>, <<64>>}
NodeAnnouncements ==
    [node_id : NodeIds, features : NodeFeatureBytes, timestamp : TimeBytes,
     addresses : {<<>>}, signature_ok : BOOLEAN]

\* the attributes of NodeInfoInDB that are properties without a setter
\* (lines 218-220)
NodeInfoInDBReadOnly == {"addresses"}

\* NodeInfoInDB.from_msg, lines 223-234: the declarative constructor sets each
\* keyword with setattr, and `addresses` is a read-only property
NodeInfoInDB_from_msg(p) ==
    IF validate_features_raises(IntFromBytes(p.features))
    THEN [raised |-> "UnknownEvenFeatureBits", at |-> 226]
    ELSE IF "addresses" \in NodeInfoInDBReadOnly
    THEN [raised |-> "AttributeError", at |-> 234]
    ELSE [raised |-> "", at |-> 234,
          row |-> [node_id |-> p.node_id,
                   features |-> {IntFromBytes(p.features)},
                   timestamp |-> {IntFromBytes(p.timestamp)},
                   alias |-> {"alias"}]]

\* self.sess is sessionmaker()() (line 285), a Session object: calling it
\* raises TypeError
sess_is_callable == FALSE

\* ChannelDB.on_node_announcement with the signature check left out
on_node_announcement_no_sig_check(db, msg_payload) ==
    LET made == NodeInfoInDB_from_msg(msg_payload)
    IN IF made.raised = "UnknownEvenFeatureBits"
       THEN Out(db, "ok", 405)
       ELSE Out(db, made.raised, made.at)

\* ChannelDB.on_node_announcement, lines 395-414. self.sess is a Session, not
\* a callable: line 412 raises TypeError before anything is deleted or added.
on_node_announcement_result(db, msg_payload) ==
    IF ~msg_payload.signature_ok
    THEN Out(db, "ok", 400)
    ELSE LET pubkey == msg_payload.node_id
             made == NodeInfoInDB_from_msg(msg_payload)
         IN IF made.raised = "UnknownEvenFeatureBits"
            THEN Out(db, "ok", 405)
            ELSE IF made.raised # ""
            THEN Out(db, made.raised, made.at)
            ELSE IF /\ pubkey \in DOMAIN db.node_info
                    /\ \E t \in db.node_info[pubkey].timestamp :
                          \A u \in made.row.timestamp : t >= u
            THEN Out(db, "ok", 411)
            ELSE IF ~sess_is_callable
            THEN Out(db, "TypeError", 412)
            ELSE Commit([db EXCEPT !.node_info = Without(db.node_info, pubkey)],
                        <<made.row>>, <<>>, 414)

\* ---------------------------------------------------------------- actions
\* the call op ends as out says
Ends(op, out) ==
    /\ node_info' = out.db.node_info
    /\ channel_info' = out.db.channel_info
    /\ policy' = out.db.policy
    /\ pending' = out.db.pending
    /\ private' = out.db.private
    /\ address' = out.db.address
    /\ blacklist' = blacklist
    /\ lock' = lock
    /\ running' = running
    /\ err' = out.err
    /\ call' = [op |-> op, at |-> out.at]

on_channel_announcement(msg_payload, trusted) ==
    \E r1, r2 \in BOOLEAN :
        Ends("on_channel_announcement",
             on_channel_announcement_result(DB, msg_payload, trusted, r1, r2))

on_channel_update(msg_payload, trusted) ==
    Ends("on_channel_update", on_channel_update_result(DB, msg_payload, trusted))

remove_channel(short_channel_id) ==
    Ends("remove_channel", remove_channel_result(DB, short_channel_id))

verifier_promote(short_channel_id) ==
    /\ short_channel_id \in DOMAIN pending
    /\ Ends("add_verified_channel_info",
            verifier_promote_result(DB, short_channel_id))

verifier_discard(short_channel_id) ==
    /\ short_channel_id \in DOMAIN pending
    /\ Ends("verifier_discard", verifier_discard_result(DB, short_channel_id))

get_routing_policy_for_channel(start_node_id, short_channel_id) ==
    Ends("get_routing_policy_for_channel",
         get_routing_policy_for_channel_result(DB, start_node_id, short_channel_id))

on_node_announcement(msg_payload) ==
    Ends("on_node_announcement", on_node_announcement_result(DB, msg_payload))

add_channel_update_for_private_channel(msg_payload, start_node_id) ==
    Ends("add_channel_update_for_private_channel",
         add_channel_update_for_private_channel_result(DB, msg_payload, start_node_id))

\* ---------------------------------------------------------- specification
\* ChannelDB.__init__: drop_all() and create_all() leave every table empty
Init ==
    /\ node_info = <<>>
    /\ channel_info = <<>>
    /\ policy = <<>>
    /\ pending = <<>>
    /\ private = <<>>
    /\ address = <<>>
    /\ blacklist = {}
    /\ lock = "free"
    /\ running = <<>>
    /\ err = "ok"
    /\ call = [op |-> "__init__", at |-> 287]

Next ==
    \/ \E m \in ChannelAnnouncements, t \in BOOLEAN : on_channel_announcement(m, t)
    \/ \E m \in ChannelUpdates, t \in BOOLEAN : on_channel_update(m, t)
    \/ \E s \in Scids : remove_channel(s)
    \/ \E s \in Scids : verifier_promote(s)
    \/ \E s \in Scids : verifier_discard(s)
    \/ \E n \in 0 .. MaxNode, s \in 0 .. MaxScid : get_routing_policy_for_channel(n, s)
    \/ \E m \in NodeAnnouncements : on_node_announcement(m)

Spec == Init /\ [][Next]_vars

\* ------------------------------------------------- the router's specification
\* find_path_for_payment and get_routing_policy_for_channel read the store and
\* change nothing: they are checked over a family of stores the schema admits,
\* the graphs of the payment scenarios among them.  Nodes 1, 2 and 3 are the
\* payer A, the hop X and the payee B.
RouterScids == 1 .. MaxScid + 1

\* the endpoints of the channel with the scid s: scid 2 joins X and B, every
\* other scid joins A and X
ChannelEnds(s) == IF s = 2 THEN <<2, 3>> ELSE <<1, 2>>

\* a policy row as Policy.from_msg decodes it
PolicyRow(fee_base_msat, channel_flags, htlc_maximum_msat) ==
    [cltv_expiry_delta |-> 40,
     htlc_minimum_msat |-> 0,
     htlc_maximum_msat |-> htlc_maximum_msat,
     fee_base_msat |-> fee_base_msat,
     fee_proportional_millionths |-> 0,
     channel_flags |-> channel_flags,
     timestamp |-> 1]

\* what a scid is in a store of the family: no channel, a channel without
\* policies, or a channel whose two directions carry the policy named
ChannelChoices ==
    {"absent", "bare", "fee500", "fee1000", "fee2000", "disabled", "max500000"}

\* the choices of a scid: the parallel channels past scid 2 differ in fee only
ChannelChoicesOf(s) ==
    IF s <= 2 THEN ChannelChoices ELSE {"absent", "bare", "fee500", "fee2000"}

\* the policy of the direction with the direction bit dir under a choice
ChoicePolicy(choice, dir) ==
    CASE choice = "fee500" -> PolicyRow(500, dir, {})
      [] choice = "fee1000" -> PolicyRow(1000, dir, {})
      [] choice = "fee2000" -> PolicyRow(2000, dir, {})
      [] choice = "disabled" -> PolicyRow(1000, dir + FLAG_DISABLE, {})
      [] choice = "max500000" -> PolicyRow(500, dir, {500000})

\* the store a choice per scid describes
StoreOf(g) ==
    LET present == {s \in DOMAIN g : g[s] # "absent"}
        keyed == {s \in present : g[s] # "bare"}
        keys == {<<s, ChannelEnds(s)[d]>> : s \in keyed, d \in {1, 2}}
    IN [node_info |-> [n \in NodeIds |-> dummy_node(n)],
        channel_info |->
            [s \in present |->
                [short_channel_id |-> s,
                 node1_id |-> ChannelEnds(s)[1],
                 node2_id |-> ChannelEnds(s)[2],
                 capacity_sat |-> {},
                 msg_payload_hex |-> {"channel_announcement"}]],
        policy |->
            [k \in keys |->
                ChoicePolicy(g[k[1]],
                             IF k[2] = ChannelEnds(k[1])[1] THEN 0 ELSE 1)],
        pending |-> <<>>,
        private |-> <<>>,
        address |-> <<>>]

\* the arguments of the searches: the invoice amount, the caller's local
\* channels (scid -> view) and the order get_channels_for_node enumerates in
InvoiceAmounts == {1000000}
LocalChannelViews ==
    {<<>>} \cup {(s :> [balance_msat |-> b]) : s \in {1, 3}, b \in {0, 2000000}}
Orders ==
    {[i \in RouterScids |-> i],
     [i \in RouterScids |-> Cardinality(RouterScids) + 1 - i]}

\* the private channel_updates the wallet hands in
PrivateChannelUpdates ==
    {m \in ChannelUpdates :
        /\ m.short_channel_id = 1
        /\ m.signer = 1
        /\ m.chain_hash = rev_genesis_bytes
        /\ m.channel_flags = <<0>>
        /\ m.timestamp = <<1>>
        /\ m.htlc_maximum_msat = <<>>
        /\ m.fee_base_msat = <<1>>}
MaxPrivate == 1
MaxBlacklist == 1

find_path_for_payment(nodeA, nodeB, invoice_amount_msat, my_channels, order) ==
    LET found == find_path_for_payment_result(DB, blacklist, nodeA, nodeB,
                     invoice_amount_msat, my_channels, order)
    IN /\ err' = found.err
       /\ call' = [op |-> "find_path_for_payment", at |-> found.at,
                   skipped |-> found.skipped, dropped |-> found.dropped]
       /\ UNCHANGED <<node_info, channel_info, policy, pending, private, address,
                      blacklist, lock, running>>

\* the caller adds the scid of a failed payment to the finder's blacklist
blacklist_add(short_channel_id) ==
    /\ Cardinality(blacklist) < MaxBlacklist
    /\ short_channel_id \notin blacklist
    /\ blacklist' = blacklist \cup {short_channel_id}
    /\ err' = "ok"
    /\ call' = [op |-> "blacklist.add", at |-> 544]
    /\ UNCHANGED <<node_info, channel_info, policy, pending, private, address, lock,
                   running>>

RouterInit ==
    \E g \in {h \in [RouterScids -> ChannelChoices] :
                  \A s \in RouterScids : h[s] \in ChannelChoicesOf(s)} :
        /\ node_info = StoreOf(g).node_info
        /\ channel_info = StoreOf(g).channel_info
        /\ policy = StoreOf(g).policy
        /\ pending = <<>>
        /\ private = <<>>
        /\ address = <<>>
        /\ blacklist = {}
        /\ lock = "free"
        /\ running = <<>>
        /\ err = "ok"
        /\ call = [op |-> "__init__", at |-> 544]

RouterNext ==
    \/ \E a, b \in NodeIds, amt \in InvoiceAmounts,
          my \in LocalChannelViews, o \in Orders :
            find_path_for_payment(a, b, amt, my, o)
    \/ \E s \in RouterScids : blacklist_add(s)
    \/ \E n \in 0 .. MaxNode, s \in 0 .. MaxScid + 1 :
            get_routing_policy_for_channel(n, s)
    \/ \E m \in PrivateChannelUpdates, n \in NodeIds :
            /\ Cardinality(DOMAIN private) < MaxPrivate
            /\ add_channel_update_for_private_channel(m, n)

RouterSpec == RouterInit /\ [][RouterNext]_vars

\* ------------------------------------------- searches beside gossip threads
\* A gossip handler runs on its own thread and a search may run while the
\* handler is between its first line and its commit.
\* the handlers whose body runs inside `with self.lock`: self.lock is created
\* at line 89 and acquired nowhere
LockedHandlers == {}

\* the gossip a handler is entered with beside a search
ConcurrentAnnouncements ==
    {m \in ChannelAnnouncements :
        /\ m.node_id_1 = 1 /\ m.node_id_2 = 2
        /\ m.chain_hash = rev_genesis_bytes /\ m.features = <<0>>}
ConcurrentUpdates ==
    {m \in ChannelUpdates :
        /\ m.chain_hash = rev_genesis_bytes /\ m.channel_flags = <<0>>
        /\ m.timestamp = <<1>> /\ m.htlc_maximum_msat = <<>>
        /\ m.fee_base_msat = <<1>> /\ m.signer = 1}

\* a thread enters the handler op: it takes self.lock if the handler does
enter_handler(op, arg, trusted) ==
    /\ running = <<>>
    /\ lock = "free"
    /\ running' = [op |-> op, arg |-> arg, trusted |-> trusted]
    /\ lock' = IF op \in LockedHandlers THEN op ELSE lock
    /\ UNCHANGED <<node_info, channel_info, policy, pending, private, address,
                   blacklist, err, call>>

\* what the handler the thread is inside of does to the store
running_result(r1, r2) ==
    CASE running.op = "on_channel_announcement" ->
            on_channel_announcement_result(DB, running.arg, running.trusted, r1, r2)
      [] running.op = "on_channel_update" ->
            on_channel_update_result(DB, running.arg, running.trusted)
      [] running.op = "remove_channel" ->
            remove_channel_result(DB, running.arg)

\* the thread leaves the handler: its writes are committed (or it raised)
\* and the lock, if it was taken, is released
leave_handler ==
    /\ running # <<>>
    /\ \E r1, r2 \in BOOLEAN :
          LET out == running_result(r1, r2)
          IN /\ node_info' = out.db.node_info
             /\ channel_info' = out.db.channel_info
             /\ policy' = out.db.policy
             /\ pending' = out.db.pending
             /\ private' = out.db.private
             /\ address' = out.db.address
             /\ err' = out.err
             /\ call' = [op |-> running.op, at |-> out.at]
    /\ running' = <<>>
    /\ lock' = "free"
    /\ blacklist' = blacklist

\* a search runs on the caller's thread; it waits for the lock only if a
\* handler holds it
concurrent_search(x) ==
    /\ lock = "free"
    /\ find_path_for_payment(x.nodeA, x.nodeB, x.amount, x.my_channels, x.order)

ConcurrentSearches ==
    {x \in [nodeA : NodeIds, nodeB : NodeIds, amount : InvoiceAmounts,
            my_channels : LocalChannelViews, order : Orders] :
        x.my_channels = <<>>}

ConcurrentNext ==
    \/ \E m \in ConcurrentAnnouncements, t \in BOOLEAN :
            enter_handler("on_channel_announcement", m, t)
    \/ \E m \in ConcurrentUpdates, t \in BOOLEAN :
            enter_handler("on_channel_update", m, t)
    \/ \E s \in Scids : enter_handler("remove_channel", s, FALSE)
    \/ leave_handler
    \/ \E x \in ConcurrentSearches : concurrent_search(x)

ConcurrentSpec == Init /\ [][ConcurrentNext]_vars

\* ------------------------------------------------------- route sanity checks
\* lnutil.NUM_MAX_EDGES_IN_PAYMENT_PATH, imported at line 44: the greatest
\* number of edges of a payment path
NUM_MAX_EDGES_IN_PAYMENT_PATH == 20

\* the loop of is_route_sane_to_use, lines 520-523, over reversed(route[1:]):
\* i is the index of the edge to visit next, from Len(route) down to 2; the
\* result is the (amt, cltv) the loop ends with, or insane when an edge
\* refuses the amount it would carry
RECURSIVE route_loop(_, _, _, _)
route_loop(route, i, amt, cltv) ==
    IF i < 2 THEN [insane |-> FALSE, amt |-> amt, cltv |-> cltv]
    ELSE IF ~ is_sane_to_use(route[i], amt)
    THEN [insane |-> TRUE, amt |-> amt, cltv |-> cltv]
    ELSE route_loop(route, i - 1,
                    amt + fee_for_edge(route[i], amt),
                    cltv + route[i].cltv_expiry_delta)

\* is_route_sane_to_use with the test of line 517 left out
is_route_sane_to_use_without_length_test(route, invoice_amount_msat, min_final_cltv_expiry) ==
    LET l == route_loop(route, Len(route), invoice_amount_msat,
                        min_final_cltv_expiry)
        total_fee == l.amt - invoice_amount_msat
    IN IF l.insane THEN FALSE
       ELSE IF l.cltv > 60 * 144 THEN FALSE
       ELSE IF total_fee > 50000
       THEN IF total_fee > invoice_amount_msat THEN FALSE
            ELSE IF total_fee > 5000000 THEN FALSE
            ELSE IF /\ invoice_amount_msat > 1000000
                    /\ 10 * total_fee > invoice_amount_msat
            THEN FALSE
            ELSE TRUE
       ELSE TRUE

\* is_route_sane_to_use, lines 513-537
is_route_sane_to_use(route, invoice_amount_msat, min_final_cltv_expiry) ==
    IF Len(route) > NUM_MAX_EDGES_IN_PAYMENT_PATH THEN FALSE
    ELSE LET l == route_loop(route, Len(route), invoice_amount_msat,
                             min_final_cltv_expiry)
             total_fee == l.amt - invoice_amount_msat
         IN IF l.insane THEN FALSE
            ELSE IF l.cltv > 60 * 144 THEN FALSE
            ELSE IF total_fee > 50000
            THEN IF total_fee > invoice_amount_msat THEN FALSE
                 ELSE IF total_fee > 5000000 THEN FALSE
                 ELSE IF /\ invoice_amount_msat > 1000000
                         /\ 10 * total_fee > invoice_amount_msat
                 THEN FALSE
                 ELSE TRUE
            ELSE TRUE

\* the RouteEdge tuple, lines 475-479
RouteEdge(fee_base_msat, fee_proportional_millionths, cltv_expiry_delta) ==
    [node_id |-> 1,
     short_channel_id |-> 1,
     fee_base_msat |-> fee_base_msat,
     fee_proportional_millionths |-> fee_proportional_millionths,
     cltv_expiry_delta |-> cltv_expiry_delta]

\* the edges and amounts is_sane_to_use is applied to: the values on both
\* sides of each threshold of lines 500-509
SanityEdges ==
    { RouteEdge(b, p, c) : b \in {0, 50000, 50001, 100001, 5000000, 5000001},
                           p \in {0, 100000, 1000000},
                           c \in {0, 14 * 144, 14 * 144 + 1} }

SanityAmounts == {0, 50000, 50001, 1000000, 1000001, 10000000, 60000000}

\* the routes is_route_sane_to_use is applied to: every route of at most two
\* edges, and the routes of one repeated edge up to MaxRouteLen edges
RouteEdgeChoices ==
    { RouteEdge(b, 0, c) : b \in {0, 60000}, c \in {0, 144, 14 * 144 + 1} }

SanityRoutes ==
    UNION { [1 .. n -> RouteEdgeChoices] : n \in 0 .. 2 }
        \cup { [i \in 1 .. n |-> e] : n \in 0 .. MaxRouteLen,
                                      e \in RouteEdgeChoices }

SanityInvoiceAmounts == {1000000, 1000001, 100000000}

SanityFinalCltvs == {9, 60 * 144}

\* ---------------------------------------------------------- address decoder
\* read(n) of parse_addresses_field, lines 239-242: data is buf[0:n] and buf
\* becomes buf[n:]; a short buffer gives what is left
read_data(buf, n) == SubSeq(buf, 1, IF n < Len(buf) THEN n ELSE Len(buf))

read_rest(buf, n) ==
    SubSeq(buf, (IF n < Len(buf) THEN n ELSE Len(buf)) + 1, Len(buf))

\* the eight read(2) of line 254, in order: the groups of an IPv6 address
RECURSIVE read_groups(_, _)
read_groups(buf, k) ==
    IF k = 0 THEN <<>>
    ELSE <<read_data(buf, 2)>> \o read_groups(read_rest(buf, 2), k - 1)

\* util.is_ip_address of the text lines 249 and 254-255 build. The dotted text
\* of the octets read is an IPv4 address when there are four of them; the
\* colon-joined hex text of the groups is an IPv6 address when no group is
\* empty, or when exactly the last two are (the text then ends with "::")
is_ip_address(host) ==
    IF host.kind = "ipv4" THEN Len(host.data) = 4
    ELSE IF host.kind = "ipv6"
    THEN \/ \A i \in 1 .. 8 : host.data[i] # <<>>
         \/ /\ \A i \in 1 .. 6 : host.data[i] # <<>>
            /\ host.data[7] = <<>>
            /\ host.data[8] = <<>>
    ELSE FALSE

\* parse_addresses_field, lines 237-274, from the `while buf` of line 244 on.
\* A host is kept as the bytes its text is made from: the octets of '%d.%d.%d.%d',
\* the groups of the hex text, the bytes under b32encode.
RECURSIVE parse_addresses_loop(_, _)
parse_addresses_loop(buf, addresses) ==
    IF buf = <<>> THEN addresses
    ELSE LET atype == read_data(buf, 1)[1]
             buf1 == read_rest(buf, 1)
         IN IF atype = 0 THEN parse_addresses_loop(buf1, addresses)
            ELSE IF atype = 1
            THEN LET ipv4_addr == [kind |-> "ipv4", data |-> read_data(buf1, 4)]
                     buf2 == read_rest(buf1, 4)
                     port == IntFromBytes(read_data(buf2, 2))
                 IN parse_addresses_loop(read_rest(buf2, 2),
                        IF is_ip_address(ipv4_addr) /\ port # 0
                        THEN Append(addresses, <<ipv4_addr, port>>)
                        ELSE addresses)
            ELSE IF atype = 2
            THEN LET ipv6_addr == [kind |-> "ipv6", data |-> read_groups(buf1, 8)]
                     buf2 == read_rest(buf1, 16)
                     port == IntFromBytes(read_data(buf2, 2))
                 IN parse_addresses_loop(read_rest(buf2, 2),
                        IF is_ip_address(ipv6_addr) /\ port # 0
                        THEN Append(addresses, <<ipv6_addr, port>>)
                        ELSE addresses)
            ELSE IF atype = 3
            THEN LET host == [kind |-> "onion", data |-> read_data(buf1, 10)]
                     buf2 == read_rest(buf1, 10)
                     port == IntFromBytes(read_data(buf2, 2))
                 IN parse_addresses_loop(read_rest(buf2, 2),
                        Append(addresses, <<host, port>>))
            ELSE IF atype = 4
            THEN LET host == [kind |-> "onion", data |-> read_data(buf1, 35)]
                     buf2 == read_rest(buf1, 35)
                     port == IntFromBytes(read_data(buf2, 2))
                 IN parse_addresses_loop(read_rest(buf2, 2),
                        Append(addresses, <<host, port>>))
            ELSE addresses

parse_addresses_field(addresses_field) ==
    parse_addresses_loop(addresses_field, <<>>)

\* the address records a node announces: the type byte, the address bytes
\* (all alike, of the length of the type) and the port; type 0 is padding and
\* type 5 is not a type the decoder knows
AddressLen(atype) ==
    CASE atype = 1 -> 4 [] atype = 2 -> 16 [] atype = 3 -> 10
      [] atype = 4 -> 35 [] OTHER -> 0

AddressRecords ==
    {[atype |-> 0, addr |-> <<>>, port |-> <<>>]}
        \cup [atype : {5}, addr : {<<>>}, port : {<<38, 7>>}]
        \cup { [atype |-> t, addr |-> [i \in 1 .. AddressLen(t) |-> 7], port |-> p] :
                 t \in 1 .. 4, p \in {<<0, 0>>, <<38, 7>>} }

\* the bytes of the addresses field that carries the records rs
RECURSIVE AddressesField(_)
AddressesField(rs) ==
    IF rs = <<>> THEN <<>>
    ELSE <<rs[1].atype>> \o rs[1].addr \o rs[1].port \o AddressesField(Tail(rs))

AddressRecordLists == UNION { [1 .. n -> AddressRecords] : n \in 0 .. MaxRecords }

\* fields cut short inside a record
TruncatedFields ==
    UNION { { SubSeq(AddressesField(<<r>>), 1, n) :
                n \in 1 .. Len(AddressesField(<<r>>)) - 1 } :
            r \in {x \in AddressRecords :
                        x.atype \in 1 .. 2 /\ x.port # <<0, 0>>} }

\* ------------------------------------------ specification of pure functions
\* the calls of the pure functions: the function, its arguments, and ret, {}
\* until the call has returned
PureCalls ==
    [op : {"is_sane_to_use"}, route_edge : SanityEdges,
     amount_msat : SanityAmounts, ret : {{}}]
        \cup [op : {"is_route_sane_to_use"}, route : SanityRoutes,
              invoice_amount_msat : SanityInvoiceAmounts,
              min_final_cltv_expiry : SanityFinalCltvs, ret : {{}}]
        \cup { [op |-> "parse_addresses_field", records |-> rs,
                addresses_field |-> AddressesField(rs), ret |-> {}] :
                  rs \in AddressRecordLists }
        \cup { [op |-> "parse_addresses_field", records |-> <<>>,
                addresses_field |-> f, ret |-> {}] : f \in TruncatedFields }

\* RouteEdge.is_sane_to_use returns
call_is_sane_to_use ==
    /\ call.op = "is_sane_to_use"
    /\ call.ret = {}
    /\ call' = [call EXCEPT
                  !.ret = {is_sane_to_use(call.route_edge, call.amount_msat)}]
    /\ UNCHANGED <<node_info, channel_info, policy, pending, private, address,
                   blacklist, lock, running, err>>

\* is_route_sane_to_use returns
call_is_route_sane_to_use ==
    /\ call.op = "is_route_sane_to_use"
    /\ call.ret = {}
    /\ call' = [call EXCEPT
                  !.ret = {is_route_sane_to_use(call.route,
                                                call.invoice_amount_msat,
                                                call.min_final_cltv_expiry)}]
    /\ UNCHANGED <<node_info, channel_info, policy, pending, private, address,
                   blacklist, lock, running, err>>

\* parse_addresses_field returns
call_parse_addresses_field ==
    /\ call.op = "parse_addresses_field"
    /\ call.ret = {}
    /\ call' = [call EXCEPT
                  !.ret = {parse_addresses_field(call.addresses_field)}]
    /\ UNCHANGED <<node_info, channel_info, policy, pending, private, address,
                   blacklist, lock, running, err>>

PureInit ==
    /\ node_info = <<>>
    /\ channel_info = <<>>
    /\ policy = <<>>
    /\ pending = <<>>
    /\ private = <<>>
    /\ address = <<>>
    /\ blacklist = {}
    /\ lock = "free"
    /\ running = <<>>
    /\ err = "ok"
    /\ call \in PureCalls

PureNext ==
    \/ call_is_sane_to_use
    \/ call_is_route_sane_to_use
    \/ call_parse_addresses_field

PureSpec == PureInit /\ [][PureNext]_vars

\* --------------------------------------------------------------- recent peers
\* ChannelDB.NUM_MAX_RECENT_PEERS, line 80
NUM_MAX_RECENT_PEERS == 20

\* the LNPeerAddr values add_recent_peer is called with: the peers beyond
\* MaxVariedPeers are met at one host and port only
Hosts == {"h1", "h2"}
Ports == {9735, 9736}
PeerIds == 1 .. MaxPeers
LNPeerAddrs ==
    { p \in [pubkey : PeerIds, host : Hosts, port : Ports] :
        p.pubkey > MaxVariedPeers => (p.host = "h1" /\ p.port = 9735) }

\* datetime.datetime.now() of lines 312 and 314: later than every
\* last_connected_date the table holds
Now(db) ==
    IF DOMAIN db.address = {} THEN 1
    ELSE 1 + CHOOSE d \in {db.address[k].last_connected_date : k \in DOMAIN db.address} :
                 \A k \in DOMAIN db.address : db.address[k].last_connected_date <= d

\* query(AddressInDB).filter_by(node_id = ...): the keys of the rows found
addresses_filter_by_node_id(db, node_id) ==
    {k \in DOMAIN db.address : k[1] = node_id}

\* ChannelDB.add_recent_peer, lines 304-316. The row is looked up by node_id
\* alone (line 305); the commit of line 316 inserts the new row or writes the
\* date of the row found.
add_recent_peer_result(db, peer) ==
    LET found == addresses_filter_by_node_id(db, peer.pubkey)
    IN IF Cardinality(found) > 1
       THEN Out(db, "MultipleResultsFound", 305)
       ELSE IF found = {}
       THEN LET db1 == IF peer.pubkey \notin DOMAIN db.node_info
                       THEN Commit(db, <<dummy_node(peer.pubkey)>>, <<>>, 311).db
                       ELSE db
                key == <<peer.pubkey, peer.host, peer.port>>
                addr == [node_id |-> peer.pubkey, host |-> peer.host,
                         port |-> peer.port,
                         last_connected_date |-> Now(db)]
            IN IF key \in DOMAIN db1.address \/ peer.pubkey \notin DOMAIN db1.node_info
               THEN Out(db1, "IntegrityError", 316)
               ELSE Out([db1 EXCEPT !.address =
                            [k \in DOMAIN db1.address \cup {key} |->
                                IF k = key THEN addr ELSE db1.address[k]]],
                        "ok", 316)
       ELSE LET key == CHOOSE k \in found : TRUE
            IN Out([db EXCEPT !.address[key].last_connected_date = Now(db)],
                   "ok", 316)

\* ChannelDB.get_last_good_address, lines 332-340: {} is None
get_last_good_address_result(db, node_id) ==
    LET found == addresses_filter_by_node_id(db, node_id)
    IN IF Cardinality(found) > 1
       THEN OutRet(db, "MultipleResultsFound", 337, {})
       ELSE IF found = {}
       THEN OutRet(db, "ok", 339, {})
       ELSE OutRet(db, "ok", 340,
                   { [host |-> k[2], port |-> k[3], pubkey |-> k[1]] : k \in found })

add_recent_peer(peer) == Ends("add_recent_peer", add_recent_peer_result(DB, peer))

get_last_good_address(node_id) ==
    Ends("get_last_good_address", get_last_good_address_result(DB, node_id))

\* the peers arrive in the order of their pubkeys, and a peer already met
\* comes back only while the clock is at most MaxReconnect
PeersNext ==
    \/ \E peer \in LNPeerAddrs :
          /\ peer.pubkey <= Cardinality(DOMAIN node_info) + 1
          /\ peer.pubkey \in DOMAIN node_info => Now(DB) <= MaxReconnect
          /\ add_recent_peer(peer)
    \/ \E n \in PeerIds :
          /\ n <= Cardinality(DOMAIN node_info) + 1
          /\ get_last_good_address(n)

PeersSpec == Init /\ [][PeersNext]_vars

\* ----------------------------------------------------------------- claims
\* A channel is known when it is staged with the verifier or verified
Known(db, scid) == scid \in DOMAIN db.pending \cup DOMAIN db.channel_info

\* the row on_channel_update finds for a known channel: the staged one first
ChannelOf(db, scid) ==
    IF scid \in DOMAIN db.pending THEN db.pending[scid] ELSE db.channel_info[scid]

\* every Channel the store holds, staged or verified
Channels(db) ==
    {db.channel_info[s] : s \in DOMAIN db.channel_info}
        \cup {db.pending[s] : s \in DOMAIN db.pending}

\* the direction of an update: node1_id for bit 0, node2_id for bit 1
StartNode(db, m) ==
    IF IntFromBytes(m.channel_flags) % 2 = 0
    THEN ChannelOf(db, m.short_channel_id).node1_id
    ELSE ChannelOf(db, m.short_channel_id).node2_id

PolicyKey(db, m) == <<m.short_channel_id, StartNode(db, m)>>

\* an update the store is to take: for our chain, for a known channel (one
\* with node1_id below node2_id), and trusted or signed by the start node of
\* its direction
ValidUpdate(db, m, trusted) ==
    /\ m.chain_hash = rev_genesis_bytes
    /\ Known(db, m.short_channel_id)
    /\ ChannelOf(db, m.short_channel_id).node1_id
           < ChannelOf(db, m.short_channel_id).node2_id
    /\ (trusted \/ verify_sig_for_channel_update(m, StartNode(db, m)))

Max(a, b) == IF a >= b THEN a ELSE b

\* C1: after any valid on_channel_update for a known channel and direction
\* the stored Policy carries the greatest timestamp applied so far (the
\* greater of the stored and the new one), and an update that is not newer
\* than the stored Policy leaves every field of it unchanged.
C1_StoredPolicyHasGreatestTimestamp ==
    \A m \in ChannelUpdates, t \in BOOLEAN :
        ValidUpdate(DB, m, t) =>
            LET out == on_channel_update_result(DB, m, t)
                key == PolicyKey(DB, m)
                new == IntFromBytes(m.timestamp)
            IN /\ key \in DOMAIN out.db.policy
               /\ out.db.policy[key].timestamp =
                      IF key \in DOMAIN policy
                      THEN Max(policy[key].timestamp, new) ELSE new
               /\ (key \in DOMAIN policy /\ new <= policy[key].timestamp
                       => out.db.policy[key] = policy[key])

\* C2: a valid update for a known channel that has no Policy yet for the
\* update's direction completes without error and leaves exactly one new
\* Policy, keyed by (scid, start_node) and carrying the update's fields.
C2_FirstUpdateCreatesPolicy ==
    \A m \in ChannelUpdates, t \in BOOLEAN :
        (ValidUpdate(DB, m, t) /\ PolicyKey(DB, m) \notin DOMAIN policy) =>
            LET out == on_channel_update_result(DB, m, t)
                key == PolicyKey(DB, m)
            IN /\ out.err = "ok"
               /\ DOMAIN out.db.policy = DOMAIN policy \cup {key}
               /\ out.db.policy[key] = Policy_from_msg(m)

\* an announcement the store is to take: a new scid, our chain, no unknown
\* even feature bit, node_id_1 below node_id_2
\* the feature bytes have a set bit of even position outside the known set
UnknownEvenBitSet(features) ==
    \E b \in 0 .. 7 :
        /\ b % 2 = 0
        /\ (IntFromBytes(features) \div Pow2(b)) % 2 = 1
        /\ Pow2(b) \notin LN_GLOBAL_FEATURES_KNOWN_SET

AcceptableAnnouncement(db, m) ==
    /\ m.short_channel_id \notin DOMAIN db.channel_info
    /\ m.chain_hash = rev_genesis_bytes
    /\ ~UnknownEvenBitSet(m.features)
    /\ m.node_id_1 < m.node_id_2

\* C3: a channel announced with trusted=False is pending only (it is not in
\* the verified channel table when the call returns); announced with
\* trusted=True it is in the verified table as soon as the call returns.
C3_UntrustedAnnouncementIsPendingOnly ==
    \A m \in ChannelAnnouncements, t, r1, r2 \in BOOLEAN :
        AcceptableAnnouncement(DB, m) =>
            LET out == on_channel_announcement_result(DB, m, t, r1, r2)
            IN IF t
               THEN out.err = "ok"
                    /\ m.short_channel_id \in DOMAIN out.db.channel_info
               ELSE m.short_channel_id \notin DOMAIN out.db.channel_info

\* C4: every stored Channel has node1_id < node2_id; none has
\* node1_id = node2_id.
C4_Node1BelowNode2 ==
    \A c \in Channels(DB) : c.node1_id < c.node2_id

\* C5: every stored Policy belongs to a stored Channel and starts at one of
\* its endpoints; remove_channel(scid) returns and leaves neither the Channel
\* nor a Policy of that scid, and every other Channel and Policy as it was.
C5_PoliciesFollowTheirChannel ==
    /\ \A key \in DOMAIN policy :
          /\ Known(DB, key[1])
          /\ key[2] \in {ChannelOf(DB, key[1]).node1_id,
                         ChannelOf(DB, key[1]).node2_id}
    /\ \A s \in DOMAIN channel_info :
          LET out == remove_channel_result(DB, s)
          IN /\ out.err = "ok"
             /\ out.db.channel_info = Without(channel_info, s)
             /\ out.db.policy =
                    [k \in {x \in DOMAIN policy : x[1] # s} |-> policy[k]]

\* C6: both endpoints of every stored Channel are Node records, and after
\* on_channel_announcement has taken an announcement, or
\* add_verified_channel_info a staged channel, both endpoints of that channel
\* are Node records.
C6_EndpointsAreNodes ==
    /\ \A c \in Channels(DB) : {c.node1_id, c.node2_id} \subseteq DOMAIN node_info
    /\ \A m \in ChannelAnnouncements, t, r1, r2 \in BOOLEAN :
          AcceptableAnnouncement(DB, m) =>
              {m.node_id_1, m.node_id_2} \subseteq
                  DOMAIN on_channel_announcement_result(DB, m, t, r1, r2).db.node_info
    /\ \A s \in DOMAIN pending :
          {pending[s].node1_id, pending[s].node2_id} \subseteq
              DOMAIN verifier_promote_result(DB, s).db.node_info

\* C7: on_channel_update for a scid that is neither staged nor verified
\* raises NotFoundChanAnnouncementForUpdate and leaves the store unchanged.
C7_UnknownScidRaisesNotFound ==
    \A m \in ChannelUpdates, t \in BOOLEAN :
        (m.chain_hash = rev_genesis_bytes /\ ~Known(DB, m.short_channel_id)) =>
            LET out == on_channel_update_result(DB, m, t)
            IN out.err = "NotFoundChanAnnouncementForUpdate" /\ out.db = DB

\* the timestamp rule: a Policy is stored for the update's direction and is
\* not older than the update
Stale(db, m) ==
    /\ PolicyKey(db, m) \in DOMAIN db.policy
    /\ db.policy[PolicyKey(db, m)].timestamp >= IntFromBytes(m.timestamp)

C10_RejectedAnnouncementChangesNothing ==
    \A m \in ChannelAnnouncements, t, r1, r2 \in BOOLEAN :
        (\/ m.short_channel_id \in DOMAIN channel_info
         \/ m.chain_hash # rev_genesis_bytes
         \/ UnknownEvenBitSet(m.features)) =>
            LET out == on_channel_announcement_result(DB, m, t, r1, r2)
            IN out.err = "ok" /\ out.db = DB

\* C10 witness: an announcement for a stored scid returned at the duplicate
\* check
C10_Witness ==
    /\ call = [op |-> "on_channel_announcement", at |-> 362]
    /\ err = "ok"
    /\ channel_info # <<>>

\* C11: for a channel of the verified set get_routing_policy_for_channel
\* returns exactly the Policy keyed (scid, start_node), or none when that
\* direction has no Policy; only for a channel outside the verified set does
\* it answer from the private-updates map entry for (start_node, scid).
C11_RoutingPolicyIsTheKeyedPolicy ==
    \A n \in NodeIds, s \in Scids :
        LET out == get_routing_policy_for_channel_result(DB, n, s)
        IN IF s \in DOMAIN channel_info
           THEN /\ out.err = "ok"
                /\ out.ret = IF <<s, n>> \in DOMAIN policy
                             THEN {policy[<<s, n>>]} ELSE {}
           ELSE /\ out.err = "ok"
                /\ out.ret = IF <<n, s>> \in DOMAIN private
                             THEN {Policy_from_msg(private[<<n, s>>])} ELSE {}

\* the stored record of the announced node is not older than the announcement:
\* a stored timestamp is the wall clock at insertion (dummy_node), which no
\* gossip timestamp of the bounded set exceeds
ExistingIsNewer(db, m) ==
    /\ m.node_id \in DOMAIN db.node_info
    /\ db.node_info[m.node_id].timestamp = {"now"}

\* C12: on_node_announcement returns silently and leaves the store unchanged
\* when the signature does not verify or the features hold an unknown even
\* bit (bit 6), and leaves it unchanged when the stored record is newer; no
\* node announcement removes a Node or replaces its timestamp by an older one.
C12_RejectedNodeAnnouncementChangesNothing ==
    \A m \in NodeAnnouncements :
        LET out == on_node_announcement_result(DB, m)
        IN /\ (~m.signature_ok \/ UnknownEvenBitSet(m.features)) =>
                  (out.err = "ok" /\ out.db = DB)
           /\ ExistingIsNewer(DB, m) => out.db = DB
           /\ \A n \in DOMAIN node_info :
                  /\ n \in DOMAIN out.db.node_info
                  /\ \/ out.db.node_info[n].timestamp = node_info[n].timestamp
                     \/ (n = m.node_id /\ ~ExistingIsNewer(DB, m))

\* C12 witness: an announcement with an unknown even feature bit was
\* rejected while Node records were stored
C12_Witness ==
    /\ call = [op |-> "on_node_announcement", at |-> 405]
    /\ err = "ok"
    /\ node_info # <<>>

\* ------------------------------------------------------ claims on the finder
\* the searches of the bounded argument sets, run on the store and the
\* blacklist of the state
SearchArgs ==
    [nodeA : NodeIds, nodeB : NodeIds, amount : InvoiceAmounts,
     my_channels : LocalChannelViews, order : Orders]
SearchOf(x) ==
    find_path_for_payment_result(DB, blacklist, x.nodeA, x.nodeB, x.amount,
                                 x.my_channels, x.order)

GraphEdges(db) ==
    {<<u, v, s>> \in NodeIds \X NodeIds \X DOMAIN db.channel_info :
        /\ u # v
        /\ {u, v} = {db.channel_info[s].node1_id, db.channel_info[s].node2_id}}

\* r is a route from nodeA to nodeB: edges that chain and visit no node twice
IsRoute(r, nodeA, nodeB) ==
    /\ r # <<>>
    /\ r[1][1] = nodeA
    /\ r[Len(r)][2] = nodeB
    /\ \A i \in 1 .. Len(r) - 1 : r[i][2] = r[i + 1][1]
    /\ \A i, j \in 1 .. Len(r) : i # j => r[i][1] # r[j][1]
    /\ \A i \in 1 .. Len(r) : r[i][2] # nodeA

\* the routes from nodeA to nodeB in the graph
RoutesOf(db, nodeA, nodeB) ==
    {r \in UNION {[1 .. n -> GraphEdges(db)] : n \in 1 .. MaxNode - 1} :
        IsRoute(r, nodeA, nodeB)}

\* the Policy of the edge e, keyed (scid, start node); e has one
HasPolicy(db, e) == <<e[3], e[1]>> \in DOMAIN db.policy
PolicyOf(db, e) == db.policy[<<e[3], e[1]>>]

\* fee_for_amount of the edge e at the amount it carries
FeeOf(db, e, fwd) ==
    PolicyOf(db, e).fee_base_msat
        + ((fwd * PolicyOf(db, e).fee_proportional_millionths) \div 1000000)

\* the amount the i-th edge of r carries: the invoice amount over the last
\* edge, and over each earlier edge what the next one carries plus its fee
RECURSIVE Carried(_, _, _, _)
Carried(db, r, i, invoice) ==
    IF i = Len(r) THEN invoice
    ELSE Carried(db, r, i + 1, invoice)
            + FeeOf(db, r[i + 1], Carried(db, r, i + 1, invoice))

\* per-edge sanity (section on edge sanity of the spec) for the amount fwd
EdgeIsSane(db, e, fwd) ==
    LET fee == FeeOf(db, e, fwd)
    IN /\ PolicyOf(db, e).cltv_expiry_delta <= 14 * 144
       /\ fee > 50000 =>
             /\ fee <= fwd
             /\ fee <= 5000000
             /\ ~(fwd > 1000000 /\ 10 * fee > fwd)

\* the edge e can carry fwd: its Policy is stored and enabled and fwd is
\* within htlc_minimum_msat, htlc_maximum_msat and the capacity
EdgeIsFeasible(db, e, fwd) ==
    /\ HasPolicy(db, e)
    /\ BitAnd(PolicyOf(db, e).channel_flags, FLAG_DISABLE) = 0
    /\ fwd >= PolicyOf(db, e).htlc_minimum_msat
    /\ \A mx \in PolicyOf(db, e).htlc_maximum_msat : fwd <= mx
    /\ \A cap \in db.channel_info[e[3]].capacity_sat : fwd \div 1000 <= cap
    /\ EdgeIsSane(db, e, fwd)

\* every edge of the route is off the blacklist and can carry its amount
RouteIsFeasible(db, bl, r, invoice) ==
    /\ \A i \in 1 .. Len(r) : r[i][3] \notin bl /\ HasPolicy(db, r[i])
    /\ \A i \in 1 .. Len(r) :
          EdgeIsFeasible(db, r[i], Carried(db, r, i, invoice))

\* the total heuristic cost of a route, in units of 1/10000: per edge
\* cltv_expiry_delta + fee/10000 + 1
RECURSIVE RouteCostFrom(_, _, _, _)
RouteCostFrom(db, r, i, invoice) ==
    IF i > Len(r) THEN 0
    ELSE PolicyOf(db, r[i]).cltv_expiry_delta * 10000
            + FeeOf(db, r[i], Carried(db, r, i, invoice)) + 10000
            + RouteCostFrom(db, r, i + 1, invoice)
RouteCost(db, r, invoice) == RouteCostFrom(db, r, 1, invoice)

\* what the sender pays over the route: the invoice amount and every fee
RoutePaid(db, r, invoice) ==
    Carried(db, r, 1, invoice) + FeeOf(db, r[1], Carried(db, r, 1, invoice))

\* the route a returned path describes: the path lists <<node, scid>> hops
\* from nodeA on
RouteOfPath(p, nodeA) ==
    [i \in 1 .. Len(p) |->
        <<IF i = 1 THEN nodeA ELSE p[i - 1][1], p[i][1], p[i][2]>>]

\* the searches between two different nodes without local channels
PlainSearches == {x \in SearchArgs : x.nodeA # x.nodeB /\ x.my_channels = <<>>}

\* the feasible routes a search could take
FeasibleRoutes(x) ==
    {r \in RoutesOf(DB, x.nodeA, x.nodeB) :
        RouteIsFeasible(DB, blacklist, r, x.amount)}

\* C14: without local channels, when a feasible non-blacklisted route from A
\* to B exists, find_path_for_payment returns a path whose total heuristic
\* cost (per edge cltv_expiry_delta + fee/10000 + 1, fees at the carried
\* amounts) equals distance[A], and no feasible route costs strictly less.
C14_ReturnedPathIsCheapest ==
    \A x \in PlainSearches :
        FeasibleRoutes(x) # {} =>
            LET found == SearchOf(x)
            IN /\ found.err = "ok"
               /\ found.ret # {}
               /\ \A p \in found.ret :
                     LET r == RouteOfPath(p, x.nodeA)
                     IN /\ RouteCost(DB, r, x.amount)
                              = found.distance_from_start[x.nodeA]
                        /\ \A q \in FeasibleRoutes(x) :
                              RouteCost(DB, q, x.amount)
                                  >= RouteCost(DB, r, x.amount)

\* C15: for the path a search returns, the amount the sender pays (the
\* amount popped with A when the search stops) is the invoice amount plus
\* the fee of every edge of the path at the amount that edge carries,
\* amounts accumulated from the payee backwards; a search with a feasible
\* route comes back with such a path.
C15_SenderPaysInvoicePlusFees ==
    \A x \in PlainSearches :
        FeasibleRoutes(x) # {} =>
            LET found == SearchOf(x)
            IN /\ found.err = "ok"
               /\ found.ret # {}
               /\ \A p \in found.ret :
                     found.paid = {RoutePaid(DB, RouteOfPath(p, x.nodeA), x.amount)}

\* the stores of the payment scenarios
IsStore(g) ==
    /\ channel_info = StoreOf(g).channel_info
    /\ policy = StoreOf(g).policy
    /\ blacklist = {}
S1 == [s \in RouterScids |->
          IF s = 1 THEN "fee1000" ELSE IF s = 2 THEN "fee500" ELSE "absent"]
S2 == [s \in RouterScids |->
          IF s = 1 THEN "disabled" ELSE IF s = 2 THEN "fee500" ELSE "absent"]
S3 == [s \in RouterScids |->
          IF s = 1 THEN "fee1000" ELSE IF s = 2 THEN "max500000" ELSE "absent"]
S4 == [s \in RouterScids |->
          IF s = 1 THEN "fee2000" ELSE IF s \in {2, 3} THEN "fee500" ELSE "absent"]

\* the searches from A (node 1) to B (node 3) for the scenarios' invoice
ScenarioSearches ==
    {x \in PlainSearches : x.nodeA = 1 /\ x.nodeB = 3 /\ x.amount = 1000000}

\* C16 (scenario S1): with A-X scid 1 (fee_base 1000) and X-B scid 2
\* (fee_base 500), the search from A to B for 1 000 000 msat returns the path
\* via scids 1 and 2, X forwards 1 000 500 and the sender pays 1 001 500.
C16_ScenarioS1 ==
    IsStore(S1) =>
        \A x \in ScenarioSearches :
            LET found == SearchOf(x)
            IN /\ found.err = "ok"
               /\ found.ret = {<<<<2, 1>>, <<3, 2>>>>}
               /\ <<1, 1, 1000500>> \in found.costed
               /\ found.paid = {1001500}

\* C17 (scenario S4): with the parallel channels scid 1 (fee 2000) and scid 3
\* (fee 500) between A and X and scid 2 between X and B, the path returned
\* takes scid 3 for its first hop, whatever the order of enumeration.
C17_ScenarioS4 ==
    IsStore(S4) =>
        \A x \in ScenarioSearches :
            LET found == SearchOf(x)
            IN /\ found.err = "ok"
               /\ found.ret = {<<<<2, 3>>, <<3, 2>>>>}

\* C18: every edge of a returned path has a stored, enabled Policy for its
\* start node and carries an amount within htlc_minimum_msat,
\* htlc_maximum_msat, the capacity and the edge sanity rules; when the only
\* route has a disabled policy (S2) or an htlc_maximum_msat below the amount
\* (S3), the search returns no path.
C18_EveryEdgeOfThePathIsFeasible ==
    /\ \A x \in SearchArgs :
          \A p \in SearchOf(x).ret :
              LET r == RouteOfPath(p, x.nodeA)
              IN /\ \A i \in 1 .. Len(r) : HasPolicy(DB, r[i])
                 /\ \A i \in 1 .. Len(r) :
                       EdgeIsFeasible(DB, r[i], Carried(DB, r, i, x.amount))
    /\ (IsStore(S2) \/ IsStore(S3)) =>
          \A x \in ScenarioSearches :
              SearchOf(x).err = "ok" /\ SearchOf(x).ret = {}

C20_SearchSeesConsistentSnapshot ==
    /\ running # <<>> => lock = running.op
    /\ \A s \in DOMAIN channel_info :
          {channel_info[s].node1_id, channel_info[s].node2_id}
              \subseteq DOMAIN node_info
    /\ \A k \in DOMAIN policy : k[1] \in DOMAIN channel_info

C22_EdgeSanityRule ==
    (call.op = "is_sane_to_use" /\ call.ret # {}) =>
        LET e == call.route_edge
            amount_msat == call.amount_msat
            total_fee == e.fee_base_msat
                + MulDivMillion(amount_msat, e.fee_proportional_millionths)
        IN /\ call.ret = {FALSE} <=>
                 \/ e.cltv_expiry_delta > 2016
                 \/ total_fee > 50000 /\ total_fee > amount_msat
                 \/ total_fee > 5000000
                 \/ amount_msat > 1000000 /\ 10 * total_fee > amount_msat
           /\ (e.cltv_expiry_delta <= 2016 /\ total_fee <= 50000) =>
                 call.ret = {TRUE}

\* C22 witness: an edge was refused by the ten percent rule alone
C22_Witness ==
    /\ call.op = "is_sane_to_use"
    /\ call.route_edge = RouteEdge(100001, 0, 0)
    /\ call.amount_msat = 1000001
    /\ call.ret = {FALSE}

\* the entries the claim expects of the records rs: those before the first
\* record of unknown type, in order, without padding and without port 0
RECURSIVE ExpectedAddresses(_)
ExpectedAddresses(rs) ==
    IF rs = <<>> THEN <<>>
    ELSE IF rs[1].atype \notin 0 .. 4 THEN <<>>
    ELSE IF rs[1].atype = 0 \/ IntFromBytes(rs[1].port) = 0
    THEN ExpectedAddresses(Tail(rs))
    ELSE <<[atype |-> rs[1].atype, addr |-> rs[1].addr,
            port |-> IntFromBytes(rs[1].port)]>>
             \o ExpectedAddresses(Tail(rs))

\* the bytes of the host of a decoded entry
HostBytes(host) ==
    IF host.kind = "ipv6"
    THEN host.data[1] \o host.data[2] \o host.data[3] \o host.data[4]
            \o host.data[5] \o host.data[6] \o host.data[7] \o host.data[8]
    ELSE host.data

\* C25: for a field made of records of types 0 to 4 the list
\* parse_addresses_field returns has no entry with port 0, whatever the type
\* of the address, and the other entries come in the order of the input; at
\* the first record of unknown type the decoder stops and returns the entries
\* decoded before it.
C25_NoPortZeroEntry ==
    (call.op = "parse_addresses_field" /\ call.records # <<>>) =>
        \A ret \in call.ret :
            LET expected == ExpectedAddresses(call.records)
            IN /\ \A i \in 1 .. Len(ret) : ret[i][2] # 0
               /\ Len(ret) = Len(expected)
               /\ \A i \in 1 .. Len(expected) :
                     /\ HostBytes(ret[i][1]) = expected[i].addr
                     /\ ret[i][2] = expected[i].port

\* ---------------------------------------------------- claims on recent peers
\* the key of the row with the oldest last_connected_date
OldestAddress(db) ==
    CHOOSE k \in DOMAIN db.address :
        \A j \in DOMAIN db.address :
            db.address[k].last_connected_date <= db.address[j].last_connected_date

\* C23: after any sequence of add_recent_peer calls the address table holds at
\* most 20 recent peers; when a 21st distinct peer is added, the row with the
\* oldest last_connected_date is evicted.
C23_RecentPeersCapped ==
    /\ Cardinality(DOMAIN address) <= NUM_MAX_RECENT_PEERS
    /\ \A peer \in LNPeerAddrs :
          (/\ Cardinality(DOMAIN address) = NUM_MAX_RECENT_PEERS
           /\ <<peer.pubkey, peer.host, peer.port>> \notin DOMAIN address) =>
              LET out == add_recent_peer_result(DB, peer)
              IN /\ Cardinality(DOMAIN out.db.address) = NUM_MAX_RECENT_PEERS
                 /\ OldestAddress(DB) \notin DOMAIN out.db.address

\* C24: after add_recent_peer(peer) an Address with the key (peer.pubkey,
\* peer.host, peer.port) is stored with last_connected_date the time of the
\* call, a Node with node_id peer.pubkey exists, and the Addresses with
\* another key, another host or port of the same node included, keep their
\* host, port and last_connected_date.
C24_AddRecentPeerUpsertsItsKey ==
    \A peer \in LNPeerAddrs :
        LET out == add_recent_peer_result(DB, peer)
            key == <<peer.pubkey, peer.host, peer.port>>
        IN /\ out.err = "ok"
           /\ key \in DOMAIN out.db.address
           /\ out.db.address[key].last_connected_date = Now(DB)
           /\ peer.pubkey \in DOMAIN out.db.node_info
           /\ \A k \in (DOMAIN address \cap DOMAIN out.db.address) \ {key} :
                 out.db.address[k] = address[k]

C27_NoneOnlyWithoutFeasibleRoute ==
    \A x \in PlainSearches :
        LET found == SearchOf(x)
        IN /\ (found.err = "ok" /\ found.ret = {}) => FeasibleRoutes(x) = {}
           /\ FeasibleRoutes(x) # {} =>
                 /\ found.at = 649
                 /\ \E p \in found.ret : p # <<>>

====
